---- MODULE Spec2Model ----
(***************************************************************************)
(* Model of factor_selection/svd.py: svd_factor_extraction (Fit) and       *)
(* apply_svd_factors (Apply).                                              *)
(*                                                                         *)
(* Numbers.  A float is modelled as an exact number of the field Q(sqrt 2) *)
(* extended with the IEEE non-finite values: <<p, q, d>> with d > 0 is     *)
(* (p + q*sqrt(2)) / d in lowest terms, <<0,0,0>> is NaN (pandas' missing  *)
(* value), <<1,0,0>> is +inf and <<-1,0,0>> is -inf.  Rounding is not      *)
(* modelled ("within numerical tolerance" is exact equality here).         *)
(***************************************************************************)
EXTENDS Integers, Sequences, FiniteSets, TLC

----------------------------------------------------------------------------
(* Exact arithmetic with IEEE division by zero and NaN propagation.        *)

Abs(x) == IF x < 0 THEN -x ELSE x

\* The greatest common divisor of a >= 0 and b >= 0, not both 0.
GCD(a, b) ==
    IF a = 0 THEN b
    ELSE IF b = 0 THEN a
    ELSE CHOOSE g \in 1..a :
            /\ a % g = 0 /\ b % g = 0
            /\ \A h \in (g + 1)..a : ~(a % h = 0 /\ b % h = 0)

NaN == <<0, 0, 0>>
PInf == <<1, 0, 0>>
NInf == <<-1, 0, 0>>

\* (p + q*sqrt 2)/d in lowest terms with a positive denominator (d # 0).
Q2(p, q, d) ==
    LET g == GCD(GCD(Abs(p), Abs(q)), Abs(d))
        s == IF d < 0 THEN -1 ELSE 1
    IN  <<(s * p) \div g, (s * q) \div g, (s * d) \div g>>

Num(n) == <<n, 0, 1>>
Zero == Num(0)
One == Num(1)

IsFinite(x) == x[3] # 0
IsNaN(x) == x = NaN

\* The sign of p + q*sqrt 2 (sqrt 2 is irrational: p*p = 2*q*q only at 0).
SignPQ(p, q) ==
    IF p = 0 /\ q = 0 THEN 0
    ELSE IF p >= 0 /\ q >= 0 THEN 1
    ELSE IF p <= 0 /\ q <= 0 THEN -1
    ELSE IF p > 0 THEN (IF p * p > 2 * q * q THEN 1 ELSE -1)
    ELSE (IF 2 * q * q > p * p THEN 1 ELSE -1)

\* -1, 0, 1 for a finite or infinite number; NaN has no sign (0 here, and
\* every caller tests IsNaN first).
Sign(x) == IF IsFinite(x) THEN SignPQ(x[1], x[2]) ELSE x[1]

Inf(s) == IF s > 0 THEN PInf ELSE IF s < 0 THEN NInf ELSE NaN

Neg(x) == <<-x[1], -x[2], x[3]>>

Add(x, y) ==
    IF IsNaN(x) \/ IsNaN(y) THEN NaN
    ELSE IF IsFinite(x) /\ IsFinite(y)
         THEN Q2(x[1] * y[3] + y[1] * x[3], x[2] * y[3] + y[2] * x[3], x[3] * y[3])
    ELSE IF IsFinite(x) THEN y
    ELSE IF IsFinite(y) THEN x
    ELSE IF x = y THEN x ELSE NaN

Sub(x, y) == Add(x, Neg(y))

Mul(x, y) ==
    IF IsNaN(x) \/ IsNaN(y) THEN NaN
    ELSE IF IsFinite(x) /\ IsFinite(y)
         THEN Q2(x[1] * y[1] + 2 * x[2] * y[2], x[1] * y[2] + x[2] * y[1], x[3] * y[3])
    ELSE Inf(Sign(x) * Sign(y))

Div(x, y) ==
    IF IsNaN(x) \/ IsNaN(y) THEN NaN
    ELSE IF ~IsFinite(y) THEN (IF IsFinite(x) THEN Zero ELSE NaN)
    ELSE IF Sign(y) = 0 THEN Inf(Sign(x))
    ELSE IF ~IsFinite(x) THEN Inf(Sign(x) * Sign(y))
    ELSE Mul(x, Q2(y[3] * y[1], -(y[3] * y[2]), y[1] * y[1] - 2 * y[2] * y[2]))

\* The integer square root of n >= 0.
ISqrt(n) == CHOOSE r \in 0..n : r * r <= n /\ (r + 1) * (r + 1) > n
IsSquare(n) == n >= 0 /\ ISqrt(n) * ISqrt(n) = n

\* The square root of a non-negative rational p/d is in Q(sqrt 2) exactly when
\* p*d or 2*p*d is a perfect square.
HasSqrt(x) ==
    \/ ~IsFinite(x)
    \/ /\ x[2] = 0
       /\ x[1] >= 0
       /\ (IsSquare(x[1] * x[3]) \/ IsSquare(2 * x[1] * x[3]))

Sqrt(x) ==
    IF IsNaN(x) \/ Sign(x) < 0 THEN NaN
    ELSE IF ~IsFinite(x) THEN PInf
    ELSE IF IsSquare(x[1] * x[3]) THEN Q2(ISqrt(x[1] * x[3]), 0, x[3])
    ELSE Q2(0, ISqrt(2 * x[1] * x[3]), 2 * x[3])

----------------------------------------------------------------------------
(* Vectors and matrices (numpy arrays): a matrix is a sequence of rows.    *)

Min(a, b) == IF a <= b THEN a ELSE b

\* sum(v), summed from the left.
SumSeq(v) ==
    LET sum[i \in 0..Len(v)] == IF i = 0 THEN Zero ELSE Add(sum[i - 1], v[i])
    IN  sum[Len(v)]

Dot(u, v) == SumSeq([j \in 1..Len(u) |-> Mul(u[j], v[j])])

NRows(M) == Len(M)
NCols(M) == IF M = <<>> THEN 0 ELSE Len(M[1])

ColumnAt(M, j) == [i \in 1..Len(M) |-> M[i][j]]

Transpose(M) == [j \in 1..NCols(M) |-> ColumnAt(M, j)]

\* A @ B for A of shape (a, m) and B of shape (m, c), m >= 1.
MatMul(A, B) ==
    [i \in 1..Len(A) |-> [c \in 1..NCols(B) |-> Dot(A[i], ColumnAt(B, c))]]

\* np.diag of a vector.
Diag(S) == [i \in 1..Len(S) |-> [j \in 1..Len(S) |-> IF i = j THEN S[i] ELSE Zero]]

\* seq[:n]
Take(seq, n) == SubSeq(seq, 1, Min(n, Len(seq)))

\* M[:, :n]
TakeCols(M, n) == [i \in 1..Len(M) |-> Take(M[i], n)]

IsFiniteVector(v) == \A j \in 1..Len(v) : IsFinite(v[j])
IsFiniteMatrix(M) == \A i \in 1..Len(M) : IsFiniteVector(M[i])
NoFiniteEntry(M) == \A i \in 1..Len(M) : \A j \in 1..Len(M[i]) : ~IsFinite(M[i][j])

----------------------------------------------------------------------------
(* pandas: a DataFrame is [index, columns, values], a Series is            *)
(* [index, values]; operations between them align on labels.              *)

Pos(seq, x) == CHOOSE j \in 1..Len(seq) : seq[j] = x

\* data[names].copy(): the named columns, in the order of names, as a new
\* frame with the same row identifiers.
SelectCopy(df, names) ==
    [index |-> df.index,
     columns |-> names,
     values |-> [i \in 1..Len(df.values) |->
                    [j \in 1..Len(names) |-> df.values[i][Pos(df.columns, names[j])]]]]

NonMissing(col) == SelectSeq(col, LAMBDA v : ~IsNaN(v))

\* Series.mean(): over the non-missing values; NaN when there is none.
Mean(col) ==
    LET v == NonMissing(col) IN Div(SumSeq(v), Num(Len(v)))

SquaredDeviations(col) ==
    LET v == NonMissing(col)
        m == Mean(col)
    IN  SumSeq([i \in 1..Len(v) |-> Mul(Sub(v[i], m), Sub(v[i], m))])

\* Series.var(), ddof = 1: NaN with fewer than two non-missing values.
Var(col) ==
    LET v == NonMissing(col)
    IN  IF Len(v) <= 1 THEN NaN ELSE Div(SquaredDeviations(col), Num(Len(v) - 1))

\* Series.std(), ddof = 1.
Std(col) == Sqrt(Var(col))

\* DataFrame.mean() and DataFrame.std(): one value per column, labelled by
\* the column names.
FrameMean(df) ==
    [index |-> df.columns,
     values |-> [j \in 1..Len(df.columns) |-> Mean(ColumnAt(df.values, j))]]

FrameStd(df) ==
    [index |-> df.columns,
     values |-> [j \in 1..Len(df.columns) |-> Std(ColumnAt(df.values, j))]]

\* The value a Series holds for a label; NaN when the label is absent
\* (label alignment).
At(series, label) ==
    IF \E j \in 1..Len(series.index) : series.index[j] = label
    THEN series.values[Pos(series.index, label)]
    ELSE NaN

\* Variant: the filled frame is dropped (fillna's result is not assigned).
FillnaDropped(df, series) == df

\* df.fillna(series): a missing cell takes the series' value for its column
\* (and stays missing when that value is itself NaN).
Fillna(df, series) ==
    [df EXCEPT !.values =
        [i \in 1..Len(df.values) |->
            [j \in 1..Len(df.columns) |->
                IF IsNaN(df.values[i][j]) THEN At(series, df.columns[j])
                ELSE df.values[i][j]]]]

\* Variant: a zero standard deviation is replaced by one before dividing.
StandardizeGuarded(df, means, stds) ==
    [df EXCEPT !.values =
        [i \in 1..Len(df.values) |->
            [j \in 1..Len(df.columns) |->
                Div(Sub(df.values[i][j], At(means, df.columns[j])),
                    IF At(stds, df.columns[j]) = Zero THEN One
                    ELSE At(stds, df.columns[j]))]]]

\* (df - means) / stds, elementwise, each column with the series' values for
\* its label; division by zero gives inf or NaN and raises nothing.
Standardize(df, means, stds) ==
    [df EXCEPT !.values =
        [i \in 1..Len(df.values) |->
            [j \in 1..Len(df.columns) |->
                Div(Sub(df.values[i][j], At(means, df.columns[j])),
                    At(stds, df.columns[j]))]]]

\* The column names SVD_Factor_1 .. SVD_Factor_n.
FactorNames(n) == [i \in 1..n |-> <<"SVD_Factor_", i>>]

ShapeError == [error |-> "ValueError: Shape of passed values"]

\* pd.DataFrame(values, columns = columns, index = index): the frame, or the
\* ValueError pandas raises when the labels do not fit the values' shape.
NewFrame(values, columns, index) ==
    IF NRows(values) # Len(index) \/ NCols(values) # Len(columns)
    THEN ShapeError
    ELSE [index |-> index, columns |-> columns, values |-> values]

IsError(x) == "error" \in DOMAIN x

----------------------------------------------------------------------------
(* The decomposition routines (np.linalg.svd, scipy.linalg.svd with        *)
(* full_matrices = False).  They are library code: a routine is modelled   *)
(* by its contract.  For a finite matrix Z of shape (rows, k) and          *)
(* r = min(rows, k) it returns some U (rows, r), S (r) and Vt (r, k) with  *)
(* U @ diag(S) @ Vt = Z, orthonormal columns of U, orthonormal rows of Vt  *)
(* and S descending and non-negative; which of the triples that satisfy    *)
(* the contract (signs, the vectors of a zero or repeated singular value)  *)
(* is the routine's choice.  The triples are searched among vectors with   *)
(* entries in SvdEntries(m) and singular values in SingularValues.         *)

Half == <<1, 0, 2>>
RootHalf == <<0, 1, 2>>
Root2 == <<0, 1, 1>>
Two == <<2, 0, 1>>

\* The entries tried for a singular vector of dimension m.
SvdEntries(m) ==
    IF m <= 3 THEN {Zero, RootHalf, Neg(RootHalf), One, Neg(One)}
    ELSE {Zero, Half, Neg(Half), One, Neg(One)}
SingularValues == {Zero, One, Root2, Two}

MaxDim == 4

\* A set with its elements listed once (a set written {x \in S : P(x)} is
\* filtered again each time it is read).
Listed(S) == {x : x \in S}

\* The unit vectors of each dimension, as pairs <<m, vectors>>.
UnitVectorSets ==
    {<<m, Listed({v \in [1..m -> SvdEntries(m)] : Dot(v, v) = One})>> :
        m \in 1..MaxDim}

UnitVectors(m) == (CHOOSE pr \in UnitVectorSets : pr[1] = m)[2]

\* The r-tuples of mutually orthogonal unit vectors of dimension m.
OrthonormalTupleSets ==
    {<<r, m, Listed({T \in [1..r -> UnitVectors(m)] :
                \A i \in 1..r : \A j \in 1..r : i < j => Dot(T[i], T[j]) = Zero})>> :
        <<r, m>> \in (1..2) \X (1..MaxDim)}

OrthonormalTuples(r, m) ==
    (CHOOSE tr \in OrthonormalTupleSets : tr[1] = r /\ tr[2] = m)[3]

Descending(S) ==
    /\ \A i \in 1..Len(S) : Sign(S[i]) >= 0
    /\ \A i \in 1..Len(S) - 1 : Sign(Sub(S[i], S[i + 1])) >= 0

Orthonormal(T) ==
    \A i \in 1..Len(T) : \A j \in 1..Len(T) :
        Dot(T[i], T[j]) = IF i = j THEN One ELSE Zero

SvdContract(Z, t) ==
    /\ NRows(t.U) = NRows(Z) /\ NCols(t.U) = Len(t.S)
    /\ NRows(t.Vt) = Len(t.S) /\ NCols(t.Vt) = NCols(Z)
    /\ Len(t.S) = Min(NRows(Z), NCols(Z))
    /\ Descending(t.S)
    /\ MatMul(MatMul(t.U, Diag(t.S)), t.Vt) = Z
    /\ Orthonormal(Transpose(t.U))
    /\ Orthonormal(t.Vt)

\* The singular values S that fit W = Z @ Vt.T, whose column c must have
\* norm S[c].
FittingS(W) ==
    {S \in [1..NCols(W) -> SingularValues] :
        \A c \in 1..NCols(W) :
            Mul(S[c], S[c]) = Dot(ColumnAt(W, c), ColumnAt(W, c))}

\* The triples of the search space that satisfy the contract for Z.  The
\* search is staged to keep it short: Vt is kept only when the rows of Z lie
\* in the span of its rows (Z @ Vt.T @ Vt = Z), S only when it fits the
\* column norms of Z @ Vt.T; both follow from the contract, which is then
\* checked in full on what is left.
SvdTriples(Z) ==
    LET rows == NRows(Z)
        k == NCols(Z)
        r == Min(rows, k)
        Us == {Transpose(Ut) : Ut \in OrthonormalTuples(r, rows)}
        Vts == {Vt \in OrthonormalTuples(r, k) :
                    MatMul(MatMul(Z, Transpose(Vt)), Vt) = Z}
    IN  UNION {UNION {{t \in [U : Us, S : {S}, Vt : {Vt}] : SvdContract(Z, t)} :
                        S \in FittingS(MatMul(Z, Transpose(Vt)))} :
                  Vt \in Vts}

\* What a routine that does not reject a matrix with NaN or inf entries
\* hands back for it: arrays of the contract's shapes without a finite entry.
NaNTriple(Z) ==
    LET r == Min(NRows(Z), NCols(Z))
    IN  [U |-> [i \in 1..NRows(Z) |-> [c \in 1..r |-> NaN]],
         S |-> [c \in 1..r |-> NaN],
         Vt |-> [c \in 1..r |-> [j \in 1..NCols(Z) |-> NaN]]]

LinAlgError == [error |-> "LinAlgError: SVD did not converge"]
NonFiniteError == [error |-> "ValueError: array must not contain infs or NaNs"]

\* np.linalg.svd(Z, full_matrices=False), triples being the triples of the
\* contract for Z: one of them, or
\* LinAlgError when the iteration does not converge.  For a matrix with NaN
\* or inf entries LAPACK reports non-convergence or fills the result with
\* NaN, depending on the build.
PrimarySvd(Z, triples) ==
    IF IsFiniteMatrix(Z) THEN triples \cup {LinAlgError}
    ELSE {NaNTriple(Z), LinAlgError}

\* scipy.linalg.svd(Z, full_matrices=False), likewise; check_finite is left at its
\* default, so a matrix with NaN or inf entries is rejected with ValueError.
FallbackSvd(Z, triples) ==
    IF IsFiniteMatrix(Z) THEN triples \cup {LinAlgError}
    ELSE {NonFiniteError}

----------------------------------------------------------------------------
(* svd_factor_extraction (Fit), statement by statement.                    *)

\* Variant: the selection is a view and the fill is done in place, so the
\* caller's table takes the filled cells.
TableAfterFillnaInPlace(table, filled) ==
    [table EXCEPT !.values =
        [i \in 1..Len(table.values) |->
            [j \in 1..Len(table.columns) |->
                IF \E h \in 1..Len(filled.columns) :
                       filled.columns[h] = table.columns[j]
                THEN filled.values[i][Pos(filled.columns, table.columns[j])]
                ELSE table.values[i][j]]]]

\* The caller's table after a frame copied from it was filled: SelectCopy
\* made a copy and fillna returns a new frame, so the table is as it was.
TableAfterFillna(table, filled) == table

\* Lines 52-60: the selected columns, their means and standard deviations,
\* the filled frame and the standardized frame.
FitStandardized(table, names) ==
    LET factor_data == SelectCopy(table, names)
        means == FrameMean(factor_data)
        stds == FrameStd(factor_data)
        filled == Fillna(factor_data, means)
    IN  [means |-> means,
         stds |-> stds,
         factor_data |-> filled,
         factor_data_standardized |-> Standardize(filled, means, stds)]

\* pd.DataFrame({'mean': means, 'std': stds}).
ScalingInfo(means, stds) ==
    [index |-> means.index,
     columns |-> <<"mean", "std">>,
     values |-> [j \in 1..Len(means.index) |->
                    <<means.values[j], At(stds, means.index[j])>>]]

\* Variant: U[:, :n_factors], without the singular values.
SelectedFactorsUnscaled(usv, n) == TakeCols(usv.U, n)

\* Variant: the slices end one component early.
SelectedFactorsShort(usv, n) ==
    MatMul(TakeCols(usv.U, n - 1), Diag(Take(usv.S, n - 1)))

\* U[:, :n_factors] @ np.diag(S[:n_factors])
SelectedFactors(usv, n) == MatMul(TakeCols(usv.U, n), Diag(Take(usv.S, n)))

\* Variant: Vt.T, every component.
WeightValuesAll(usv, n) == Transpose(usv.Vt)

\* Vt[:n_factors, :].T
WeightValues(usv, n) == Transpose(Take(usv.Vt, n))

RangeIndex(n) == [i \in 1..n |-> i - 1]

\* Lines 70-87: the four values Fit returns, or the error of the first frame
\* whose labels do not fit its values.
FitOutputs(usv, n, index, names, means, stds) ==
    LET selected_factors == SelectedFactors(usv, n)
        svd_factors_df == NewFrame(selected_factors, FactorNames(n),
                                   RangeIndex(NRows(selected_factors)))
        signal_weights == NewFrame(WeightValues(usv, n), FactorNames(n), names)
    IN  IF IsError(svd_factors_df) THEN svd_factors_df
        ELSE IF IsError(signal_weights) THEN signal_weights
        ELSE [svd_factors_df |-> [svd_factors_df EXCEPT !.index = index],
              S |-> usv.S,
              signal_weights |-> signal_weights,
              scaling_info |-> ScalingInfo(means, stds)]

----------------------------------------------------------------------------
(* apply_svd_factors (Apply), statement by statement.                      *)

\* frame[name]: one column of a frame as a Series.
ColumnSeries(frame, name) ==
    [index |-> frame.index,
     values |-> ColumnAt(frame.values, Pos(frame.columns, name))]

\* Variant: the means are taken from the table being transformed.
ApplyMeansFromNewData(test_factor_data, scaling_info) ==
    FrameMean(test_factor_data)

\* Lines 119-120: the statistics Apply standardizes with.
ApplyMeans(test_factor_data, scaling_info) == ColumnSeries(scaling_info, "mean")
ApplyStds(test_factor_data, scaling_info) == ColumnSeries(scaling_info, "std")

\* Lines 123-127: fill, standardize and project onto the weights.
ApplyProjected(test_factor_data, means, stds, signal_weights) ==
    LET filled == Fillna(test_factor_data, means)
        test_standardized == Standardize(filled, means, stds)
    IN  [filled |-> filled,
         test_standardized |-> test_standardized,
         test_svd_values |-> MatMul(test_standardized.values, signal_weights.values)]

\* Variant: the values are cut to n columns before the frame is built.
ApplyFrameTruncating(test_svd_values, n, index) ==
    NewFrame(TakeCols(test_svd_values, n), FactorNames(n), index)

\* Variant: the frame keeps pandas' default row labels 0, 1, ...
ApplyFrameRenumbered(test_svd_values, n, index) ==
    NewFrame(test_svd_values, FactorNames(n), RangeIndex(Len(index)))

\* Lines 130-136: the frame Apply returns, or pandas' ValueError.
ApplyFrame(test_svd_values, n, index) ==
    NewFrame(test_svd_values, FactorNames(n), index)

\* The whole of apply_svd_factors, run alone.
apply_svd_factors(table, names, signal_weights, scaling_info, n) ==
    LET test_factor_data == SelectCopy(table, names)
        means == ApplyMeans(test_factor_data, scaling_info)
        stds == ApplyStds(test_factor_data, scaling_info)
        projected == ApplyProjected(test_factor_data, means, stds, signal_weights)
    IN  ApplyFrame(projected.test_svd_values, n, table.index)

----------------------------------------------------------------------------
(* The tables the callers pass.  A table has a period column the transform *)
(* does not touch and the factor columns.                                  *)

DefaultNFactors == 15

MaxTestCells == 2

AllFactors == <<"f1", "f2", "f3", "f4">>

Cells == {Zero, One, NaN}

Table(index, M, period) ==
    [index |-> index,
     columns |-> <<"yyyymm">> \o Take(AllFactors, NCols(M)),
     values |-> [i \in 1..Len(M) |-> <<Num(period)>> \o M[i]]]

Matrices(rows, k, cells) == [1..rows -> [1..k -> cells]]

\* Row identifiers are the caller's: the default 0, 1, ... or any labels,
\* in any order.
Indexes(rows) == {RangeIndex(rows), Take(<<7, 3, 5>>, rows)}

StandardizedValues(M) ==
    FitStandardized(Table(RangeIndex(Len(M)), M, 201412),
                    Take(AllFactors, NCols(M))).factor_data_standardized.values

\* The shapes (rows, k) of the training tables of SpecFit, and their cells:
\* the widest tables have no missing cell.
FitShapes == {<<1, 1>>, <<2, 1>>, <<3, 1>>, <<1, 2>>, <<2, 2>>, <<2, 4>>}
FitCells(k) == IF k > 2 THEN {Zero, One} ELSE Cells

FitMatrices == UNION {Matrices(sh[1], sh[2], FitCells(sh[2])) : sh \in FitShapes}

\* The training tables of Spec and of SpecPar.
PipelineMatrices ==
    {<< <<Zero>>, <<One>> >>,
     << <<Zero>>, <<One>>, <<Two>> >>,
     << <<One>>, <<One>> >>,
     << <<One>>, <<NaN>> >>,
     << <<Zero, One>>, <<One, Zero>> >>,
     << <<Zero, Zero>>, <<One, One>> >>,
     << <<Zero, One>>, <<One, One>> >>}

ParMatrices ==
    {<< <<Zero>>, <<One>> >>,
     << <<One>>, <<One>> >>}

\* The standard deviations are exact in Q(sqrt 2).
ExactStds(M) == \A j \in 1..NCols(M) : HasSqrt(Var(ColumnAt(M, j)))

\* The decompositions of the finite standardized training matrices, found
\* once.
FiniteStandardized ==
    {Z \in {StandardizedValues(M) :
                M \in {X \in FitMatrices \cup PipelineMatrices : ExactStds(X)}} :
        IsFiniteMatrix(Z)}

SvdPairs == {<<Z, Listed(SvdTriples(Z))>> : Z \in FiniteStandardized}

SvdOf(Z) == (CHOOSE pr \in SvdPairs : pr[1] = Z)[2]

\* The training matrices the model can decompose exactly.
Exact(M) ==
    /\ ExactStds(M)
    /\ LET Z == StandardizedValues(M)
       IN  IsFiniteMatrix(Z) => SvdOf(Z) # {}

TrainTables(Ms) ==
    {Table(index, M, 201412) : <<index, M>> \in
        UNION {Indexes(Len(M)) \X {M} : M \in {X \in Ms : Exact(X)}}}

\* The new tables of k factors: at most MaxTestCells factor cells.
TestTables(k) ==
    UNION {{Table(index, M, 201501) : <<index, M>> \in
                (Indexes(rows) \X Matrices(rows, k, Cells))} :
              rows \in {n \in 1..MaxTestCells : n * k <= MaxTestCells}}

\* The new tables of the concurrent calls.
ParTables(k) ==
    UNION {{Table(Take(<<7, 3>>, rows), M, 201501) :
                M \in Matrices(rows, k, {Zero, NaN})} : rows \in {1, 2}}

\* The training tables of Spec: the caller's own row labels.
PipelineTables ==
    {Table(Take(<<7, 3, 5>>, Len(M)), M, 201412) :
        M \in {X \in PipelineMatrices : Exact(X)}}

\* The factor columns of a table.
FactorsOf(t) == Tail(t.columns)

\* The n_factors a caller passes to Fit for k factors, and to Apply.
FitNs(k) == (1..k) \cup {DefaultNFactors}
ApplyNs == {1, 2, DefaultNFactors}

\* The contract's triples for the standardized matrix Z.
Triples(Z) == IF IsFiniteMatrix(Z) THEN SvdOf(Z) ELSE {}

----------------------------------------------------------------------------
(* The state.                                                              *)

VARIABLES
    data,             \* the caller's training table
    top_factors,      \* the factor names passed to Fit and Apply
    n_factors,        \* the n_factors passed to Fit
    fit,              \* the frame of svd_factor_extraction: position, locals
    stdout,           \* what was printed
    fitted,           \* how Fit ended: its four outputs, or the error raised
    test_data,        \* per caller, the table passed to Apply
    call,             \* per caller, the frame of apply_svd_factors
    result,           \* per caller, what Apply returned or raised
    passed            \* the tables as they were when passed (history)

vars == <<data, top_factors, n_factors, fit, stdout, fitted, test_data, call,
          result, passed>>

NoSeries == [index |-> <<>>, values |-> <<>>]
NoFrame == [index |-> <<>>, columns |-> <<>>, values |-> <<>>]
NoTriple == [U |-> <<>>, S |-> <<>>, Vt |-> <<>>]
NoError == [error |-> ""]
NoOutputs ==
    [svd_factors_df |-> NoFrame, S |-> <<>>, signal_weights |-> NoFrame,
     scaling_info |-> NoFrame]

FitFrame ==
    [pc |-> "start", means |-> NoSeries, stds |-> NoSeries,
     factor_data |-> NoFrame, factor_data_standardized |-> NoFrame,
     usv |-> NoTriple, caught |-> NoError,
     primary_calls |-> 0, fallback_calls |-> 0]

ApplyFrameIdle ==
    [pc |-> "idle", n_factors |-> 0, test_factor_data |-> NoFrame,
     means |-> NoSeries, stds |-> NoSeries, test_standardized |-> NoFrame,
     test_svd_values |-> <<>>]

\* A caller holds a training table and calls Fit on it; callers is the set
\* of callers that will call Apply.
InitWith(tables, callers) ==
    /\ data \in tables
    /\ top_factors = FactorsOf(data)
    /\ n_factors \in FitNs(Len(top_factors))
    /\ fit = FitFrame
    /\ stdout = <<>>
    /\ fitted = [status |-> "none", out |-> NoOutputs, error |-> NoError]
    /\ test_data = [c \in callers |-> NoFrame]
    /\ call = [c \in callers |-> ApplyFrameIdle]
    /\ result = [c \in callers |-> NoFrame]
    /\ passed = [train |-> data, test |-> [c \in callers |-> NoFrame]]

InitFit == InitWith(TrainTables(FitMatrices), {})
Init == InitWith(PipelineTables, {1})
InitPar == InitWith(TrainTables(ParMatrices), {1, 2})

----------------------------------------------------------------------------
(* svd_factor_extraction.                                                  *)

\* Lines 52-60.
FitStandardize ==
    /\ fit.pc = "start"
    /\ LET st == FitStandardized(data, top_factors)
       IN  /\ fit' = [fit EXCEPT !.pc = "svd",
                                 !.means = st.means,
                                 !.stds = st.stds,
                                 !.factor_data = st.factor_data,
                                 !.factor_data_standardized =
                                     st.factor_data_standardized]
           /\ data' = TableAfterFillna(data, st.factor_data)
    /\ UNCHANGED <<top_factors, n_factors, stdout, fitted, test_data, call,
                   result, passed>>

\* Variant: no except clause; an error of np.linalg.svd leaves Fit.
SvdPrimaryUncaught ==
    /\ fit.pc = "svd"
    /\ LET Z == fit.factor_data_standardized.values
       IN  \E out \in PrimarySvd(Z, Triples(Z)) :
              IF IsError(out)
              THEN /\ fit' = [fit EXCEPT !.pc = "raised",
                                         !.primary_calls = @ + 1]
                   /\ fitted' = [fitted EXCEPT !.status = "raised",
                                               !.error = out]
              ELSE /\ fit' = [fit EXCEPT !.pc = "build", !.usv = out,
                                         !.primary_calls = @ + 1]
                   /\ UNCHANGED fitted
    /\ UNCHANGED <<data, top_factors, n_factors, stdout, test_data, call,
                   result, passed>>

\* Line 63: np.linalg.svd; LinAlgError is caught by the except clause.
SvdPrimary ==
    /\ fit.pc = "svd"
    /\ LET Z == fit.factor_data_standardized.values
       IN  \E out \in PrimarySvd(Z, Triples(Z)) :
              fit' = IF IsError(out)
                     THEN [fit EXCEPT !.pc = "except", !.caught = out,
                                      !.primary_calls = @ + 1]
                     ELSE [fit EXCEPT !.pc = "build", !.usv = out,
                                      !.primary_calls = @ + 1]
    /\ UNCHANGED <<data, top_factors, n_factors, stdout, fitted, test_data,
                   call, result, passed>>

\* Lines 64-67: the except clause prints the error and calls
\* scipy.linalg.svd; an error of that call leaves Fit.
SvdFallback ==
    /\ fit.pc = "except"
    /\ stdout' = Append(stdout, <<"SVD calculation error: ", fit.caught.error>>)
    /\ LET Z == fit.factor_data_standardized.values
       IN  \E out \in FallbackSvd(Z, Triples(Z)) :
              IF IsError(out)
              THEN /\ fit' = [fit EXCEPT !.pc = "raised",
                                         !.fallback_calls = @ + 1]
                   /\ fitted' = [fitted EXCEPT !.status = "raised",
                                               !.error = out]
              ELSE /\ fit' = [fit EXCEPT !.pc = "build", !.usv = out,
                                         !.fallback_calls = @ + 1]
                   /\ UNCHANGED fitted
    /\ UNCHANGED <<data, top_factors, n_factors, test_data, call, result,
                   passed>>

\* Lines 70-87.
FitBuild ==
    /\ fit.pc = "build"
    /\ LET outs == FitOutputs(fit.usv, n_factors, fit.factor_data.index,
                              top_factors, fit.means, fit.stds)
       IN  IF IsError(outs)
           THEN /\ fit' = [fit EXCEPT !.pc = "raised"]
                /\ fitted' = [fitted EXCEPT !.status = "raised", !.error = outs]
           ELSE /\ fit' = [fit EXCEPT !.pc = "returned"]
                /\ fitted' = [fitted EXCEPT !.status = "returned", !.out = outs]
    /\ UNCHANGED <<data, top_factors, n_factors, stdout, test_data, call,
                   result, passed>>

----------------------------------------------------------------------------
(* apply_svd_factors, called by caller c with the outputs Fit returned.    *)

\* The call: the caller passes one of its tables and an n_factors.
ApplyCall(c, tables) ==
    /\ fitted.status = "returned"
    /\ call[c].pc = "idle"
    /\ \E t \in tables : \E m \in ApplyNs :
          /\ test_data' = [test_data EXCEPT ![c] = t]
          /\ passed' = [passed EXCEPT !.test[c] = t]
          /\ call' = [call EXCEPT ![c] = [@ EXCEPT !.pc = "called",
                                                   !.n_factors = m]]
    /\ UNCHANGED <<data, top_factors, n_factors, fit, stdout, fitted, result>>

\* Lines 116-120.
ApplySelect(c) ==
    /\ call[c].pc = "called"
    /\ LET tfd == SelectCopy(test_data[c], top_factors)
       IN  call' = [call EXCEPT ![c] =
                [@ EXCEPT !.pc = "selected",
                          !.test_factor_data = tfd,
                          !.means = ApplyMeans(tfd, fitted.out.scaling_info),
                          !.stds = ApplyStds(tfd, fitted.out.scaling_info)]]
    /\ UNCHANGED <<data, top_factors, n_factors, fit, stdout, fitted,
                   test_data, result, passed>>

\* Lines 123-127.
ApplyProject(c) ==
    /\ call[c].pc = "selected"
    /\ LET pr == ApplyProjected(call[c].test_factor_data, call[c].means,
                                call[c].stds, fitted.out.signal_weights)
       IN  /\ call' = [call EXCEPT ![c] =
                  [@ EXCEPT !.pc = "projected",
                            !.test_factor_data = pr.filled,
                            !.test_standardized = pr.test_standardized,
                            !.test_svd_values = pr.test_svd_values]]
           /\ test_data' = [test_data EXCEPT ![c] =
                                TableAfterFillna(test_data[c], pr.filled)]
    /\ UNCHANGED <<data, top_factors, n_factors, fit, stdout, fitted, result,
                   passed>>

\* Lines 130-136.
ApplyBuild(c) ==
    /\ call[c].pc = "projected"
    /\ call' = [call EXCEPT ![c] = [@ EXCEPT !.pc = "done"]]
    /\ result' = [result EXCEPT ![c] =
                      ApplyFrame(call[c].test_svd_values, call[c].n_factors,
                                 test_data[c].index)]
    /\ UNCHANGED <<data, top_factors, n_factors, fit, stdout, fitted,
                   test_data, passed>>

----------------------------------------------------------------------------
(* The specifications.                                                     *)

\* Fit alone, on the broad pool of training tables.
NextFit ==
    \/ FitStandardize
    \/ SvdPrimary
    \/ SvdFallback
    \/ FitBuild

SpecFit == InitFit /\ [][NextFit]_vars

\* Fit, then one caller of Apply, on a new table or on the training table.
Next ==
    \/ FitStandardize
    \/ SvdPrimary
    \/ SvdFallback
    \/ FitBuild
    \/ \E c \in DOMAIN call :
          ApplyCall(c, TestTables(Len(top_factors)) \cup {data})
    \/ \E c \in DOMAIN call : ApplySelect(c)
    \/ \E c \in DOMAIN call : ApplyProject(c)
    \/ \E c \in DOMAIN call : ApplyBuild(c)

Spec == Init /\ [][Next]_vars

\* Fit, then two callers of Apply sharing Fit's outputs, interleaved.
NextPar ==
    \/ FitStandardize
    \/ SvdPrimary
    \/ SvdFallback
    \/ FitBuild
    \/ \E c \in DOMAIN call : ApplyCall(c, ParTables(Len(top_factors)))
    \/ \E c \in DOMAIN call : ApplySelect(c)
    \/ \E c \in DOMAIN call : ApplyProject(c)
    \/ \E c \in DOMAIN call : ApplyBuild(c)

SpecPar == InitPar /\ [][NextPar]_vars

----------------------------------------------------------------------------
(* Properties.                                                             *)

FitEnded == fit.pc \in {"returned", "raised"}
TrainRows == Len(passed.train.values)
NumFactors == Len(top_factors)
DecompositionErrors == {LinAlgError, NonFiniteError}

\* The shapes and labels of what Fit returned.
FitShapesHold ==
    LET out == fitted.out
    IN  /\ out.svd_factors_df.columns = FactorNames(n_factors)
        /\ NRows(out.svd_factors_df.values) = TrainRows
        /\ \A i \in 1..TrainRows : Len(out.svd_factors_df.values[i]) = n_factors
        /\ out.svd_factors_df.index = passed.train.index
        /\ out.signal_weights.index = top_factors
        /\ out.signal_weights.columns = FactorNames(n_factors)
        /\ NRows(out.signal_weights.values) = NumFactors
        /\ \A j \in 1..NumFactors : Len(out.signal_weights.values[j]) = n_factors
        /\ out.scaling_info.index = top_factors
        /\ out.scaling_info.columns = <<"mean", "std">>
        /\ NRows(out.scaling_info.values) = NumFactors
        /\ \A j \in 1..NumFactors : Len(out.scaling_info.values[j]) = 2

\* The training table has no missing value.
TrainComplete == IsFiniteMatrix(SelectCopy(passed.train, top_factors).values)

C5Protocol ==
    /\ fit.primary_calls <= 1 /\ fit.fallback_calls <= 1
    /\ fit.pc \notin {"start", "svd"} => fit.primary_calls = 1
    /\ fit.fallback_calls = 1 =>
          /\ fit.primary_calls = 1
          /\ fit.caught = LinAlgError
          /\ stdout = << <<"SVD calculation error: ", LinAlgError.error>> >>
    /\ fit.fallback_calls = 0 =>
          /\ stdout = <<>>
          /\ fit.pc = "except" <=> fit.caught = LinAlgError
    /\ (fit.pc = "raised" /\ fit.usv = NoTriple) =>
          /\ fit.fallback_calls = 1
          /\ fitted.error \in DecompositionErrors
    /\ fitted.status = "raised" => fitted.out = NoOutputs
    /\ fitted.status = "returned" => fit.usv # NoTriple

\* The alternate routine was called and returned a decomposition.
AlternateSucceeded == fit.fallback_calls = 1 /\ fit.usv # NoTriple

\* C5 as stated, for 1 <= n_factors <= k: the primary routine is tried
\* first; only when it fails is the failure logged and the alternate tried,
\* once; when the alternate succeeds Fit returns a complete result and
\* raises nothing; when it fails the error reaches the caller and nothing
\* is returned.
C5Original ==
    /\ C5Protocol
    /\ (FitEnded /\ AlternateSucceeded /\ TrainComplete
            /\ n_factors <= NumFactors) => fitted.status = "returned"

\* C5, amended: as stated, except that after the alternate routine succeeded
\* Fit returns a complete result when n_factors <= min(rows, k) (and raises
\* pandas' shape error otherwise).
C5Amended ==
    /\ C5Protocol
    /\ (FitEnded /\ AlternateSucceeded) =>
          IF n_factors <= Min(TrainRows, NumFactors)
          THEN fitted.status = "returned" /\ FitShapesHold
          ELSE fitted.status = "raised" /\ fitted.error = ShapeError

C5Witness ==
    /\ fitted.status = "returned"
    /\ AlternateSucceeded
    /\ Len(stdout) = 1
    /\ TrainRows = 3

\* The rows of the training table where factor j is missing.
MissingRows(j) ==
    {i \in 1..TrainRows :
        IsNaN(SelectCopy(passed.train, top_factors).values[i][j])}

\* Column j of the matrix handed to the decomposition has no missing entry,
\* and is zero where the input was missing.
ImputedColumn(j) ==
    /\ \A i \in 1..TrainRows : ~IsNaN(fit.factor_data_standardized.values[i][j])
    /\ \A i \in MissingRows(j) : fit.factor_data_standardized.values[i][j] = Zero

\* C6 as stated: every selected column with some missing values has no
\* missing entry in the matrix handed to the decomposition, and is exactly
\* zero there where the input was missing.
C6Original ==
    fit.pc # "start" =>
        \A j \in 1..NumFactors : MissingRows(j) # {} => ImputedColumn(j)

\* C6, amended: that holds of every selected column with some missing values
\* whose standard deviation over the non-missing values is finite and not
\* zero (at least two non-missing values, not all equal).
C6Amended ==
    fit.pc # "start" =>
        \A j \in 1..NumFactors :
            (/\ MissingRows(j) # {}
             /\ IsFinite(fit.stds.values[j])
             /\ fit.stds.values[j] # Zero) => ImputedColumn(j)

C6Witness ==
    /\ fit.pc = "build"
    /\ MissingRows(1) = {2}
    /\ IsFinite(fit.stds.values[1]) /\ fit.stds.values[1] # Zero
    /\ fit.factor_data_standardized.values[2][1] = Zero
    /\ fit.factor_data_standardized.values[1][1] # Zero

\* The callers whose Apply call has ended.
Done == {c \in DOMAIN call : call[c].pc = "done"}

\* The number of columns of the weights table Fit returned.
WeightColumns == Len(fitted.out.signal_weights.columns)

\* apply_svd_factors run alone on table t with the arguments of caller c.
Alone(c, t) ==
    apply_svd_factors(t, top_factors, fitted.out.signal_weights,
                      fitted.out.scaling_info, call[c].n_factors)

\* C2: Apply fills and standardizes with the mean and std of the stats
\* table Fit returned, and the output row of an observation is the same in
\* every new table that holds the observation (same identifier, same
\* values), whatever the other rows of that table are.
C2RowsIndependent ==
    \A c \in Done :
        /\ call[c].means = ColumnSeries(fitted.out.scaling_info, "mean")
        /\ call[c].stds = ColumnSeries(fitted.out.scaling_info, "std")
        /\ ~IsError(result[c]) =>
              \A t \in TestTables(NumFactors) :
                 \A i \in 1..Len(passed.test[c].values) :
                    \A h \in 1..Len(t.values) :
                       (/\ t.index[h] = passed.test[c].index[i]
                        /\ t.values[h] = passed.test[c].values[i])
                          => Alone(c, t).values[h] = result[c].values[i]

C2Witness ==
    \E c \in Done :
        /\ ~IsError(result[c])
        /\ Len(passed.test[c].values) = 2
        /\ passed.test[c].values[1][2] = Zero
        /\ IsNaN(passed.test[c].values[2][2])
        /\ IsFiniteMatrix(result[c].values)
        /\ result[c].values[2][1] = Zero
        /\ result[c].values[1][1] # Zero

\* Caller c passed the training table itself, which has no missing value and
\* no zero-variance factor, and the n_factors given to Fit.
OnTrainingTable(c) ==
    /\ passed.test[c] = passed.train
    /\ call[c].n_factors = n_factors
    /\ TrainComplete
    /\ \A j \in 1..NumFactors :
          IsFinite(fit.stds.values[j]) /\ fit.stds.values[j] # Zero
    /\ ~IsError(result[c])

\* C3 as stated: on the training table, each column i of Fit's factor table
\* is the same column of Apply's output times the i-th singular value.
C3Original ==
    \A c \in Done :
        OnTrainingTable(c) =>
            \A i \in 1..TrainRows : \A j \in 1..n_factors :
                fitted.out.svd_factors_df.values[i][j] =
                    Mul(result[c].values[i][j], fitted.out.S[j])

\* C3, amended: on the training table, Apply's output is Fit's factor table
\* itself, U[:, :n] @ diag(S[:n]): the projection of the standardized matrix
\* onto the weights already carries the singular values.
C3Amended ==
    \A c \in Done :
        OnTrainingTable(c) =>
            /\ result[c].values = fitted.out.svd_factors_df.values
            /\ result[c].index = fitted.out.svd_factors_df.index
            /\ result[c].columns = fitted.out.svd_factors_df.columns

C3Witness ==
    \E c \in Done :
        /\ OnTrainingTable(c)
        /\ fitted.out.S = <<Root2>>
        /\ TrainRows = 3
        /\ result[c].values[1][1] # Zero

\* C4: called with the n_factors given to Fit, Apply returns one row per
\* row of the new table, under the new table's row identifiers in their
\* order, and the columns SVD_Factor_1 .. SVD_Factor_n.
C4ShapeAndIndex ==
    \A c \in Done :
        call[c].n_factors = n_factors =>
            /\ ~IsError(result[c])
            /\ result[c].index = passed.test[c].index
            /\ result[c].columns = FactorNames(n_factors)
            /\ Len(result[c].values) = Len(passed.test[c].values)
            /\ \A i \in 1..Len(result[c].values) :
                  Len(result[c].values[i]) = n_factors

C4Witness ==
    \E c \in Done :
        /\ call[c].n_factors = n_factors
        /\ n_factors = 2
        /\ passed.test[c].index = <<7>>
        /\ result[c].index = <<7>>
        /\ Len(result[c].values[1]) = 2

\* C10: Apply's n_factors only names the columns.  The projection has one
\* value per column of the weights table in every row; Apply returns it
\* whole when n_factors is that number of columns and raises while building
\* the frame otherwise, the default of 15 included.
C10LabelsOnly ==
    \A c \in DOMAIN call :
        /\ call[c].pc \in {"projected", "done"} =>
              \A i \in 1..Len(call[c].test_svd_values) :
                  Len(call[c].test_svd_values[i]) = WeightColumns
        /\ call[c].pc = "done" =>
              IF call[c].n_factors = WeightColumns
              THEN /\ ~IsError(result[c])
                   /\ result[c].values = call[c].test_svd_values
              ELSE result[c] = ShapeError

C10Witness ==
    \E c \in Done :
        /\ WeightColumns = 2
        /\ call[c].n_factors = 1
        /\ result[c] = ShapeError
        /\ Len(call[c].test_svd_values[1]) = 2

C10WitnessDefault ==
    \E c \in Done :
        call[c].n_factors = DefaultNFactors /\ result[c] = ShapeError

\* A factor of the training table has standard deviation zero.
ZeroVariance ==
    fit.pc # "start" /\ \E j \in 1..NumFactors : fit.stds.values[j] = Zero

\* C9 as stated: with a zero-variance factor neither Fit nor Apply raises
\* on its account; the non-finite standardized values pass silently into the
\* decomposition and into the factor tables returned.
C9Original ==
    (ZeroVariance /\ FitEnded /\ n_factors <= Min(TrainRows, NumFactors)) =>
        /\ fitted.status = "returned"
        /\ ~IsFiniteMatrix(fitted.out.svd_factors_df.values)

\* C9, amended: a zero-variance factor is not checked for; the standardized
\* matrix then holds NaN or inf and is handed to the decomposition.  Fit
\* returns a factor table with non-finite values when the primary routine
\* accepts the matrix, and raises the alternate routine's ValueError (after
\* the logged LinAlgError) when the primary routine reports non-convergence.
\* Apply never raises on account of the zero variance and returns a factor
\* table with non-finite values.
C9Amended ==
    ZeroVariance =>
        /\ ~IsFiniteMatrix(fit.factor_data_standardized.values)
        /\ fit.pc \notin {"svd", "except"} => fit.primary_calls = 1
        /\ fitted.status = "returned" =>
              /\ fit.fallback_calls = 0
              /\ ~IsFiniteMatrix(fitted.out.svd_factors_df.values)
        /\ fitted.status = "raised" =>
              \/ /\ fitted.error = NonFiniteError
                 /\ fit.caught = LinAlgError
                 /\ Len(stdout) = 1
              \/ /\ fitted.error = ShapeError
                 /\ n_factors > Min(TrainRows, NumFactors)
        /\ \A c \in DOMAIN call :
              /\ call[c].pc \in {"projected", "done"} =>
                    ~IsFiniteMatrix(call[c].test_standardized.values)
              /\ call[c].pc = "done" =>
                    IF call[c].n_factors = WeightColumns
                    THEN /\ ~IsError(result[c])
                         /\ ~IsFiniteMatrix(result[c].values)
                    ELSE result[c] = ShapeError

C9Witness ==
    /\ ZeroVariance
    /\ fitted.status = "returned"
    /\ \E c \in Done :
          /\ ~IsError(result[c])
          /\ call[c].test_standardized.values[1][1] = NInf
          /\ IsNaN(result[c].values[1][1])

====
